---- MODULE Spec2Model ----
(***************************************************************************)
(* metadb: a typed key-value store kept in the `metadata` table of an SQL  *)
(* database.  The model follows the Instance API (NewInstance, Exists,     *)
(* Get, Set, ForceSet, Delete and their Must variants).                    *)
(*                                                                         *)
(* Texts (the contents of the Value column as scanned into a Go string)    *)
(* are sequences of one-character strings, so that formatting and parsing  *)
(* are computed digit by digit.  A float64 is identified with its shortest *)
(* decimal representation m * 10^e (m not divisible by 10), which is what  *)
(* strconv.FormatFloat(..., -1, 64) prints and strconv.ParseFloat reads    *)
(* back exactly.                                                           *)
(***************************************************************************)
EXTENDS Integers, Sequences, FiniteSets, TLC

VARIABLES
    table,   \* the rows of the metadata table
    before,  \* the rows of the table when the last call started
    last     \* the last call and what it returned

vars == <<table, before, last>>

----------------------------------------------------------------------------
(* Bounds of the model *)

\* how many entries of ValuePool callers pass to Set / ForceSet
NumValues == 5

\* the integers given to the codec: -MaxNum..MaxNum
MaxNum == 11

\* the decimal exponents of the floats given to the codec: -MaxExp..MaxExp
MaxExp == 10

\* how many callers use one Instance at the same time
NumCallers == 2

\* how many databases (connections) the program has opened
NumDBs == 2

----------------------------------------------------------------------------
(* Go values passed through interface{} *)

BoolV(b)     == [kind |-> "bool",    b |-> b,     i |-> 0, m |-> 0, e |-> 0, s |-> <<>>]
IntV(i)      == [kind |-> "int",     b |-> FALSE, i |-> i, m |-> 0, e |-> 0, s |-> <<>>]
FloatV(m, e) == [kind |-> "float64", b |-> FALSE, i |-> 0, m |-> m, e |-> e, s |-> <<>>]
StringV(s)   == [kind |-> "string",  b |-> FALSE, i |-> 0, m |-> 0, e |-> 0, s |-> s]
\* the float64 values without a decimal representation; s is how strconv
\* prints them
NaNV         == [kind |-> "float64", b |-> FALSE, i |-> 0, m |-> 0, e |-> 0, s |-> <<"N", "a", "N">>]
InfV(neg)    == [kind |-> "float64", b |-> FALSE, i |-> 0, m |-> 0, e |-> 0,
                 s |-> IF neg THEN <<"-", "I", "n", "f">> ELSE <<"+", "I", "n", "f">>]
SliceV       == [kind |-> "[]string", b |-> FALSE, i |-> 0, m |-> 0, e |-> 0, s |-> <<>>]
NilV         == [kind |-> "nil",     b |-> FALSE, i |-> 0, m |-> 0, e |-> 0, s |-> <<>>]

\* the values the tests of the package use, then further ones
ValuePool ==
    << BoolV(TRUE), BoolV(FALSE), IntV(1873), StringV(<<"b", "a", "r">>), SliceV,
       FloatV(2142, -2), IntV(1), StringV(<<>>), IntV(-1), FloatV(5, 6) >>

Values == { ValuePool[k] : k \in 1..NumValues }

\* the keys callers use
Names == { "foo", "bar" }

----------------------------------------------------------------------------
(* Errors *)

NoErr               == [kind |-> "nil", name |-> ""]
ErrNoEntry(name)    == [kind |-> "ErrNoEntry", name |-> name]
ErrFailedToParse    == [kind |-> "ErrFailedToParse", name |-> ""]
ErrUnrecognizable   == [kind |-> "value type unrecognizable", name |-> ""]
ErrDisallowedType   == [kind |-> "value is of a disallowed type", name |-> ""]
ErrDifferentType(name) == [kind |-> "cannot change value to one of a different type", name |-> name]
ErrInsertFailed(name)  == [kind |-> "failed to insert entry", name |-> name]
ErrUpdateFailed(name)  == [kind |-> "failed to update entry", name |-> name]
ErrDeleteFailed(name)  == [kind |-> "failed to delete entry", name |-> name]
ErrExistsFailed     == [kind |-> "Instance.Exists: got error", name |-> ""]
ErrBackend          == [kind |-> "backend error", name |-> ""]
ErrNilHandle        == [kind |-> "NewInstance: got nil database handle", name |-> ""]
ErrCreateTable      == [kind |-> "NewInstance: got error while creating metadata table", name |-> ""]

----------------------------------------------------------------------------
(* strconv *)

DigitChars == <<"0", "1", "2", "3", "4", "5", "6", "7", "8", "9">>

IsDigit(c) == \E d \in 1..10 : DigitChars[d] = c

DigitVal(c) == (CHOOSE d \in 1..10 : DigitChars[d] = c) - 1

AllDigits(s) == \A k \in 1..Len(s) : IsDigit(s[k])

RECURSIVE DigitsVal(_)
DigitsVal(s) ==
    IF Len(s) = 0 THEN 0
    ELSE 10 * DigitsVal(SubSeq(s, 1, Len(s) - 1)) + DigitVal(s[Len(s)])

RECURSIVE FormatUint(_)
FormatUint(n) ==
    IF n < 10 THEN << DigitChars[n + 1] >>
    ELSE FormatUint(n \div 10) \o << DigitChars[(n % 10) + 1] >>

\* strconv.FormatInt(i, 10)
FormatInt(i) == IF i < 0 THEN <<"-">> \o FormatUint(-i) ELSE FormatUint(i)

\* strconv.FormatBool
FormatBool(b) == IF b THEN <<"t", "r", "u", "e">> ELSE <<"f", "a", "l", "s", "e">>

RECURSIVE Zeros(_)
Zeros(n) == IF n <= 0 THEN <<>> ELSE <<"0">> \o Zeros(n - 1)

\* the decimal digits of a float and the position of its decimal point
\* (strconv's decimalSlice: d, nd, dp)
FloatDigits(m, e) ==
    IF m = 0 THEN [d |-> <<>>, nd |-> 0, dp |-> 0]
    ELSE LET d == FormatUint(IF m < 0 THEN -m ELSE m)
         IN  [d |-> d, nd |-> Len(d), dp |-> Len(d) + e]

\* strconv's fmtE with the shortest precision: d.ddde+XX
FmtE(m, e, expChar) ==
    LET digs == FloatDigits(m, e)
        first == IF digs.nd = 0 THEN <<"0">> ELSE << digs.d[1] >>
        rest == IF digs.nd > 1 THEN <<".">> \o SubSeq(digs.d, 2, digs.nd) ELSE <<>>
        exp == IF digs.nd = 0 THEN 0 ELSE digs.dp - 1
        aexp == IF exp < 0 THEN -exp ELSE exp
        expDigits == IF aexp < 10 THEN <<"0">> \o FormatUint(aexp) ELSE FormatUint(aexp)
    IN  (IF m < 0 THEN <<"-">> ELSE <<>>) \o first \o rest
        \o << expChar >> \o (IF exp < 0 THEN <<"-">> ELSE <<"+">>) \o expDigits

\* strconv's fmtF with the shortest precision
FmtF(m, e) ==
    LET digs == FloatDigits(m, e)
        prec == IF digs.nd - digs.dp > 0 THEN digs.nd - digs.dp ELSE 0
        intPart == IF digs.dp > 0
                   THEN SubSeq(digs.d, 1, IF digs.dp < digs.nd THEN digs.dp ELSE digs.nd)
                        \o Zeros(digs.dp - digs.nd)
                   ELSE <<"0">>
        fracDigit(k) == IF digs.dp + k >= 1 /\ digs.dp + k <= digs.nd
                        THEN digs.d[digs.dp + k] ELSE "0"
        fracPart == IF prec > 0 THEN <<".">> \o [k \in 1..prec |-> fracDigit(k)] ELSE <<>>
    IN  (IF m < 0 THEN <<"-">> ELSE <<>>) \o intPart \o fracPart

\* strconv.FormatFloat(f, fmt, -1, 64) for fmt 'E' and 'g'; NaN and the
\* infinities print as NaN, +Inf and -Inf in every format
FormatFloat(f, fmt) ==
    IF f.s # <<>> THEN f.s
    ELSE IF fmt = "E" THEN FmtE(f.m, f.e, "E")
    ELSE LET exp == FloatDigits(f.m, f.e).dp - 1
         IN  IF exp < -4 \/ exp >= 6 THEN FmtE(f.m, f.e, "e") ELSE FmtF(f.m, f.e)

\* strconv.ParseBool
ParseBool(s) ==
    IF s \in { <<"1">>, <<"t">>, <<"T">>, <<"T", "R", "U", "E">>,
               <<"t", "r", "u", "e">>, <<"T", "r", "u", "e">> }
    THEN [ok |-> TRUE, b |-> TRUE]
    ELSE IF s \in { <<"0">>, <<"f">>, <<"F">>, <<"F", "A", "L", "S", "E">>,
                    <<"f", "a", "l", "s", "e">>, <<"F", "a", "l", "s", "e">> }
    THEN [ok |-> TRUE, b |-> FALSE]
    ELSE [ok |-> FALSE, b |-> FALSE]

\* strconv.ParseInt(s, 10, 0): an optional sign and one or more digits
ParseInt(s) ==
    LET signed == Len(s) > 0 /\ s[1] \in {"+", "-"}
        body == IF signed THEN Tail(s) ELSE s
    IN  IF Len(body) > 0 /\ AllDigits(body)
        THEN [ok |-> TRUE,
              i |-> IF signed /\ s[1] = "-" THEN -DigitsVal(body) ELSE DigitsVal(body)]
        ELSE [ok |-> FALSE, i |-> 0]

\* the first position of s holding a character of cs, or 0
IndexAny(s, cs) ==
    IF \E k \in 1..Len(s) : s[k] \in cs
    THEN CHOOSE k \in 1..Len(s) : s[k] \in cs /\ \A j \in 1..(k - 1) : s[j] \notin cs
    ELSE 0

\* the shortest decimal m * 10^e of a value: m is not divisible by 10
RECURSIVE Normalize(_, _)
Normalize(m, e) ==
    IF m = 0 THEN [m |-> 0, e |-> 0]
    ELSE IF m % 10 = 0 THEN Normalize(m \div 10, e + 1)
    ELSE [m |-> m, e |-> e]

\* the letters of "infinity" and "nan" in lower case
LowerChar(c) ==
    IF c = "I" THEN "i" ELSE IF c = "N" THEN "n" ELSE IF c = "F" THEN "f"
    ELSE IF c = "T" THEN "t" ELSE IF c = "Y" THEN "y" ELSE IF c = "A" THEN "a" ELSE c

ToLower(s) == [k \in 1..Len(s) |-> LowerChar(s[k])]

\* strconv's special: [sign] inf, [sign] infinity and nan in any letter case
Special(s) ==
    LET signed == Len(s) > 0 /\ s[1] \in {"+", "-"}
        body == ToLower(IF signed THEN Tail(s) ELSE s)
    IN  IF body \in { <<"i", "n", "f">>, <<"i", "n", "f", "i", "n", "i", "t", "y">> }
        THEN [ok |-> TRUE, f |-> InfV(signed /\ s[1] = "-")]
        ELSE IF ~signed /\ body = <<"n", "a", "n">> THEN [ok |-> TRUE, f |-> NaNV]
        ELSE [ok |-> FALSE, f |-> NilV]

\* strconv.ParseFloat(s, 64): a special value, or the decimal grammar
\* [sign] digits [. digits] [(e|E) [sign] digits], at least one mantissa digit
ParseFloat(s) ==
    LET signed == Len(s) > 0 /\ s[1] \in {"+", "-"}
        neg == signed /\ s[1] = "-"
        body == IF signed THEN Tail(s) ELSE s
        epos == IndexAny(body, {"e", "E"})
        mant == IF epos = 0 THEN body ELSE SubSeq(body, 1, epos - 1)
        expo == IF epos = 0 THEN <<>> ELSE SubSeq(body, epos + 1, Len(body))
        dot == IndexAny(mant, {"."})
        ip == IF dot = 0 THEN mant ELSE SubSeq(mant, 1, dot - 1)
        fp == IF dot = 0 THEN <<>> ELSE SubSeq(mant, dot + 1, Len(mant))
        esigned == Len(expo) > 0 /\ expo[1] \in {"+", "-"}
        ebody == IF esigned THEN Tail(expo) ELSE expo
        mantOk == AllDigits(ip) /\ AllDigits(fp) /\ Len(ip) + Len(fp) > 0
        expOk == epos = 0 \/ (Len(ebody) > 0 /\ AllDigits(ebody))
        ev == IF epos = 0 THEN 0
              ELSE IF esigned /\ expo[1] = "-" THEN -DigitsVal(ebody) ELSE DigitsVal(ebody)
        mv == DigitsVal(ip \o fp)
        n == Normalize(IF neg THEN -mv ELSE mv, ev - Len(fp))
    IN  IF Special(s).ok THEN [ok |-> TRUE, f |-> Special(s).f]
        ELSE IF mantOk /\ expOk THEN [ok |-> TRUE, f |-> FloatV(n.m, n.e)]
        ELSE [ok |-> FALSE, f |-> FloatV(0, 0)]

----------------------------------------------------------------------------
(* The codec *)

\* toValueType with the string case as the default case
toValueTypeLenient(value) ==
    IF value.kind = "bool" THEN [valueType |-> 0, err |-> NoErr]
    ELSE IF value.kind = "int" THEN [valueType |-> 1, err |-> NoErr]
    ELSE IF value.kind = "float64" THEN [valueType |-> 2, err |-> NoErr]
    ELSE [valueType |-> 3, err |-> NoErr]

\* toValueType numbering the types from 1
toValueTypeFromOne(value) ==
    IF value.kind = "bool" THEN [valueType |-> 1, err |-> NoErr]
    ELSE IF value.kind = "int" THEN [valueType |-> 2, err |-> NoErr]
    ELSE IF value.kind = "float64" THEN [valueType |-> 3, err |-> NoErr]
    ELSE IF value.kind = "string" THEN [valueType |-> 4, err |-> NoErr]
    ELSE [valueType |-> 0, err |-> ErrDisallowedType]

\* toValueType: the type tag of a value, or an error for a disallowed type
toValueType(value) ==
    IF value.kind = "bool" THEN [valueType |-> 0, err |-> NoErr]
    ELSE IF value.kind = "int" THEN [valueType |-> 1, err |-> NoErr]
    ELSE IF value.kind = "float64" THEN [valueType |-> 2, err |-> NoErr]
    ELSE IF value.kind = "string" THEN [valueType |-> 3, err |-> NoErr]
    ELSE [valueType |-> 0, err |-> ErrDisallowedType]

\* fromBlobString with the string case as the default case
fromBlobStringDefaultString(value, valueType) ==
    IF valueType = 0
    THEN LET res == ParseBool(value)
         IN  IF ~res.ok THEN [res |-> NilV, err |-> ErrFailedToParse]
             ELSE [res |-> BoolV(res.b), err |-> NoErr]
    ELSE IF valueType = 1
    THEN LET res == ParseInt(value)
         IN  IF ~res.ok THEN [res |-> NilV, err |-> ErrFailedToParse]
             ELSE [res |-> IntV(res.i), err |-> NoErr]
    ELSE IF valueType = 2
    THEN LET res == ParseFloat(value)
         IN  IF ~res.ok THEN [res |-> NilV, err |-> ErrFailedToParse]
             ELSE [res |-> res.f, err |-> NoErr]
    ELSE [res |-> StringV(value), err |-> NoErr]

\* fromBlobString dropping the errors of strconv: the zero result is returned
fromBlobStringIgnoreErr(value, valueType) ==
    IF valueType = 0 THEN [res |-> BoolV(ParseBool(value).b), err |-> NoErr]
    ELSE IF valueType = 1 THEN [res |-> IntV(ParseInt(value).i), err |-> NoErr]
    ELSE IF valueType = 2
    THEN [res |-> ParseFloat(value).f, err |-> NoErr]
    ELSE IF valueType = 3 THEN [res |-> StringV(value), err |-> NoErr]
    ELSE [res |-> NilV, err |-> ErrUnrecognizable]

\* fromBlobString: the value a blob string decodes to under a type tag
fromBlobString(value, valueType) ==
    IF valueType = 0
    THEN LET res == ParseBool(value)
         IN  IF ~res.ok THEN [res |-> NilV, err |-> ErrFailedToParse]
             ELSE [res |-> BoolV(res.b), err |-> NoErr]
    ELSE IF valueType = 1
    THEN LET res == ParseInt(value)
         IN  IF ~res.ok THEN [res |-> NilV, err |-> ErrFailedToParse]
             ELSE [res |-> IntV(res.i), err |-> NoErr]
    ELSE IF valueType = 2
    THEN LET res == ParseFloat(value)
         IN  IF ~res.ok THEN [res |-> NilV, err |-> ErrFailedToParse]
             ELSE [res |-> res.f, err |-> NoErr]
    ELSE IF valueType = 3
    THEN [res |-> StringV(value), err |-> NoErr]
    ELSE [res |-> NilV, err |-> ErrUnrecognizable]

\* toBlobString printing the magnitude of an integer only
toBlobStringUnsigned(value) ==
    IF value.kind = "bool" THEN [value |-> FormatBool(value.b), valueType |-> 0, err |-> NoErr]
    ELSE IF value.kind = "int"
    THEN [value |-> FormatUint(IF value.i < 0 THEN -value.i ELSE value.i),
          valueType |-> 1, err |-> NoErr]
    ELSE IF value.kind = "float64"
    THEN [value |-> FormatFloat(value, "E"), valueType |-> 2, err |-> NoErr]
    ELSE IF value.kind = "string" THEN [value |-> value.s, valueType |-> 3, err |-> NoErr]
    ELSE [value |-> <<>>, valueType |-> 0, err |-> ErrDisallowedType]

\* toBlobString: the blob string and the type tag of a value
toBlobString(value) ==
    IF value.kind = "bool" THEN [value |-> FormatBool(value.b), valueType |-> 0, err |-> NoErr]
    ELSE IF value.kind = "int" THEN [value |-> FormatInt(value.i), valueType |-> 1, err |-> NoErr]
    ELSE IF value.kind = "float64"
    THEN [value |-> FormatFloat(value, "E"), valueType |-> 2, err |-> NoErr]
    ELSE IF value.kind = "string" THEN [value |-> value.s, valueType |-> 3, err |-> NoErr]
    ELSE [value |-> <<>>, valueType |-> 0, err |-> ErrDisallowedType]

----------------------------------------------------------------------------
(* The metadata table behind instance.DB *)

\* The string that scanning the Value column yields for a Go value bound as
\* the Value parameter of INSERT / UPDATE.  The value is handed to the driver
\* as it is (no encoding by the package): a bool is bound as the integer 1 or
\* 0, and database/sql converts an integer or a float column to a string with
\* FormatInt(.., 10) and FormatFloat(.., 'g', -1, 64).
BlobString(value) ==
    IF value.kind = "bool" THEN (IF value.b THEN <<"1">> ELSE <<"0">>)
    ELSE IF value.kind = "int" THEN FormatInt(value.i)
    ELSE IF value.kind = "float64" THEN FormatFloat(value, "g")
    ELSE value.s

Row(name, value, valueType) == [Name |-> name, Value |-> value, ValueType |-> valueType]

\* SELECT ... FROM metadata WHERE name = ?
SelectRows(tbl, name) == { r \in tbl : r.Name = name }

\* ExecInsert binding no ValueType parameter: the column keeps the default 0
ExecInsertNoType(tbl, name, value, valueType, dbErr) ==
    IF dbErr \/ SelectRows(tbl, name) # {}
    THEN [tbl |-> tbl, failed |-> TRUE]
    ELSE [tbl |-> tbl \cup { Row(name, BlobString(value), 0) }, failed |-> FALSE]

\* INSERT OR REPLACE: an existing row of the name is replaced
ExecInsertReplace(tbl, name, value, valueType, dbErr) ==
    IF dbErr
    THEN [tbl |-> tbl, failed |-> TRUE]
    ELSE [tbl |-> (tbl \ SelectRows(tbl, name)) \cup { Row(name, BlobString(value), valueType) },
          failed |-> FALSE]

\* ExecInsert into a table whose Name column is not UNIQUE
ExecInsertNoUnique(tbl, name, value, valueType, dbErr) ==
    IF dbErr
    THEN [tbl |-> tbl, failed |-> TRUE]
    ELSE [tbl |-> tbl \cup { Row(name, BlobString(value), valueType) }, failed |-> FALSE]

\* INSERT INTO metadata (Name, Value, ValueType) VALUES (?, ?, ?); Name is UNIQUE
ExecInsert(tbl, name, value, valueType, dbErr) ==
    IF dbErr \/ SelectRows(tbl, name) # {}
    THEN [tbl |-> tbl, failed |-> TRUE]
    ELSE [tbl |-> tbl \cup { Row(name, BlobString(value), valueType) }, failed |-> FALSE]

\* UPDATE metadata SET Value = ? without the WHERE clause
ExecUpdateAll(tbl, name, value, dbErr) ==
    IF dbErr
    THEN [tbl |-> tbl, failed |-> TRUE]
    ELSE [tbl |-> { Row(r.Name, BlobString(value), r.ValueType) : r \in tbl }, failed |-> FALSE]

\* ExecUpdate matching no row: the statement succeeds and changes nothing
ExecUpdateNothing(tbl, name, value, dbErr) ==
    IF dbErr THEN [tbl |-> tbl, failed |-> TRUE] ELSE [tbl |-> tbl, failed |-> FALSE]

\* UPDATE metadata SET Value = ? WHERE Name = ?
ExecUpdate(tbl, name, value, dbErr) ==
    IF dbErr
    THEN [tbl |-> tbl, failed |-> TRUE]
    ELSE [tbl |-> { IF r.Name = name THEN Row(r.Name, BlobString(value), r.ValueType) ELSE r
                    : r \in tbl },
          failed |-> FALSE]

\* ExecDelete reporting the matching rows without removing them
ExecDeleteNothing(tbl, name, dbErr) ==
    IF dbErr
    THEN [tbl |-> tbl, failed |-> TRUE, affected |-> 0]
    ELSE [tbl |-> tbl, failed |-> FALSE, affected |-> Cardinality(SelectRows(tbl, name))]

\* DELETE FROM metadata WHERE name = ?
ExecDelete(tbl, name, dbErr) ==
    IF dbErr
    THEN [tbl |-> tbl, failed |-> TRUE, affected |-> 0]
    ELSE [tbl |-> tbl \ SelectRows(tbl, name), failed |-> FALSE,
          affected |-> Cardinality(SelectRows(tbl, name))]

----------------------------------------------------------------------------
(* The operations of an Instance.  A fault names the storage round trip of *)
(* the call that the backend fails: "query" (the SELECT), "exec" (the      *)
(* INSERT, UPDATE or DELETE), "rowsAffected" (Result.RowsAffected).        *)

\* Instance.Exists treating sql.ErrNoRows like a found row
InstanceExistsAlways(tbl, name, fault) ==
    IF fault = "query" THEN [res |-> FALSE, panic |-> ErrExistsFailed]
    ELSE [res |-> TRUE, panic |-> NoErr]

\* Instance.Exists returning false for every error of Scan
InstanceExistsSwallow(tbl, name, fault) ==
    IF fault = "query" THEN [res |-> FALSE, panic |-> NoErr]
    ELSE IF SelectRows(tbl, name) = {} THEN [res |-> FALSE, panic |-> NoErr]
    ELSE [res |-> TRUE, panic |-> NoErr]

\* Instance.Exists
InstanceExists(tbl, name, fault) ==
    IF fault = "query" THEN [res |-> FALSE, panic |-> ErrExistsFailed]
    ELSE IF SelectRows(tbl, name) = {} THEN [res |-> FALSE, panic |-> NoErr]
    ELSE [res |-> TRUE, panic |-> NoErr]

\* Instance.getValueType
getValueType(tbl, name, fault) ==
    IF fault = "query" THEN [valueType |-> 0, err |-> ErrBackend]
    ELSE IF SelectRows(tbl, name) = {} THEN [valueType |-> 0, err |-> ErrNoEntry(name)]
    ELSE [valueType |-> (CHOOSE r \in SelectRows(tbl, name) : TRUE).ValueType, err |-> NoErr]

\* Instance.Get returning an empty string, not ErrNoEntry, for a missing entry
InstanceGetDefault(tbl, name, fault) ==
    IF fault = "query" THEN [res |-> NilV, err |-> ErrBackend]
    ELSE IF SelectRows(tbl, name) = {} THEN [res |-> StringV(<<>>), err |-> NoErr]
    ELSE LET row == CHOOSE r \in SelectRows(tbl, name) : TRUE
         IN  fromBlobString(row.Value, row.ValueType)

\* Instance.Get
InstanceGet(tbl, name, fault) ==
    IF fault = "query" THEN [res |-> NilV, err |-> ErrBackend]
    ELSE IF SelectRows(tbl, name) = {} THEN [res |-> NilV, err |-> ErrNoEntry(name)]
    ELSE LET row == CHOOSE r \in SelectRows(tbl, name) : TRUE
         IN  fromBlobString(row.Value, row.ValueType)

\* Instance.set treating every error of getValueType as ErrNoEntry
setInsertOnAnyError(tbl, name, value, force, fault) ==
    LET vt == toValueType(value)
        cur == getValueType(tbl, name, fault)
        ins == ExecInsert(tbl, name, value, vt.valueType, fault = "exec")
        upd == ExecUpdate(tbl, name, value, fault = "exec")
    IN  IF vt.err # NoErr THEN [tbl |-> tbl, err |-> vt.err]
        ELSE IF cur.err # NoErr
        THEN IF ins.failed THEN [tbl |-> tbl, err |-> ErrInsertFailed(name)]
             ELSE [tbl |-> ins.tbl, err |-> NoErr]
        ELSE IF ~force /\ vt.valueType # cur.valueType
        THEN [tbl |-> tbl, err |-> ErrDifferentType(name)]
        ELSE IF upd.failed THEN [tbl |-> tbl, err |-> ErrUpdateFailed(name)]
        ELSE [tbl |-> upd.tbl, err |-> NoErr]

\* Instance.set without the comparison of valueType and currentType
setUnchecked(tbl, name, value, force, fault) ==
    LET vt == toValueType(value)
        cur == getValueType(tbl, name, fault)
        ins == ExecInsert(tbl, name, value, vt.valueType, fault = "exec")
        upd == ExecUpdate(tbl, name, value, fault = "exec")
    IN  IF vt.err # NoErr THEN [tbl |-> tbl, err |-> vt.err]
        ELSE IF cur.err # NoErr
        THEN IF cur.err.kind = "ErrNoEntry"
             THEN IF ins.failed THEN [tbl |-> tbl, err |-> ErrInsertFailed(name)]
                  ELSE [tbl |-> ins.tbl, err |-> NoErr]
             ELSE [tbl |-> tbl, err |-> cur.err]
        ELSE IF upd.failed THEN [tbl |-> tbl, err |-> ErrUpdateFailed(name)]
        ELSE [tbl |-> upd.tbl, err |-> NoErr]

\* Instance.set
set(tbl, name, value, force, fault) ==
    LET vt == toValueType(value)
        cur == getValueType(tbl, name, fault)
        ins == ExecInsert(tbl, name, value, vt.valueType, fault = "exec")
        upd == ExecUpdate(tbl, name, value, fault = "exec")
    IN  IF vt.err # NoErr THEN [tbl |-> tbl, err |-> vt.err]
        ELSE IF cur.err # NoErr
        THEN IF cur.err.kind = "ErrNoEntry"
             THEN IF ins.failed THEN [tbl |-> tbl, err |-> ErrInsertFailed(name)]
                  ELSE [tbl |-> ins.tbl, err |-> NoErr]
             ELSE [tbl |-> tbl, err |-> cur.err]
        ELSE IF ~force /\ vt.valueType # cur.valueType
        THEN [tbl |-> tbl, err |-> ErrDifferentType(name)]
        ELSE IF upd.failed THEN [tbl |-> tbl, err |-> ErrUpdateFailed(name)]
        ELSE [tbl |-> upd.tbl, err |-> NoErr]

\* Instance.set up to its decision: toValueType, getValueType and the
\* comparison of the types.  next is the statement the call executes next
\* ("insert", "update"), or "return" when it returns err without writing.
setLookup(tbl, name, value, force) ==
    LET vt == toValueType(value)
        cur == getValueType(tbl, name, "none")
    IN  IF vt.err # NoErr THEN [next |-> "return", valueType |-> 0, err |-> vt.err]
        ELSE IF cur.err # NoErr
        THEN IF cur.err.kind = "ErrNoEntry"
             THEN [next |-> "insert", valueType |-> vt.valueType, err |-> NoErr]
             ELSE [next |-> "return", valueType |-> vt.valueType, err |-> cur.err]
        ELSE IF ~force /\ vt.valueType # cur.valueType
        THEN [next |-> "return", valueType |-> vt.valueType, err |-> ErrDifferentType(name)]
        ELSE [next |-> "update", valueType |-> vt.valueType, err |-> NoErr]

\* Instance.set from its decision on: the INSERT or the UPDATE, executed on
\* the table as it is by then
setWrite(tbl, name, value, valueType, next) ==
    LET ins == ExecInsert(tbl, name, value, valueType, FALSE)
        upd == ExecUpdate(tbl, name, value, FALSE)
    IN  IF next = "insert"
        THEN IF ins.failed THEN [tbl |-> tbl, err |-> ErrInsertFailed(name)]
             ELSE [tbl |-> ins.tbl, err |-> NoErr]
        ELSE IF upd.failed THEN [tbl |-> tbl, err |-> ErrUpdateFailed(name)]
        ELSE [tbl |-> upd.tbl, err |-> NoErr]

\* Instance.Set passing force = true
InstanceSetForced(tbl, name, value, fault) == set(tbl, name, value, TRUE, fault)

\* Instance.Set
InstanceSet(tbl, name, value, fault) == set(tbl, name, value, FALSE, fault)

\* Instance.ForceSet that inserts but never updates an existing entry
InstanceForceSetNoUpdate(tbl, name, value, fault) ==
    IF SelectRows(tbl, name) = {} \/ fault # "none" THEN set(tbl, name, value, TRUE, fault)
    ELSE [tbl |-> tbl, err |-> toValueType(value).err]

\* Instance.ForceSet
InstanceForceSet(tbl, name, value, fault) == set(tbl, name, value, TRUE, fault)

\* Instance.Delete without the check of the affected rows
InstanceDeleteIgnoreAffected(tbl, name, fault) ==
    LET res == ExecDelete(tbl, name, fault = "exec")
    IN  IF res.failed THEN [tbl |-> tbl, err |-> NoErr, panic |-> ErrDeleteFailed(name)]
        ELSE [tbl |-> res.tbl, err |-> NoErr, panic |-> NoErr]

\* Instance.Delete returning an error when RowsAffected fails
InstanceDeleteStrict(tbl, name, fault) ==
    LET res == ExecDelete(tbl, name, fault = "exec")
    IN  IF res.failed THEN [tbl |-> tbl, err |-> NoErr, panic |-> ErrDeleteFailed(name)]
        ELSE IF fault = "rowsAffected"
        THEN [tbl |-> res.tbl, err |-> ErrDeleteFailed(name), panic |-> NoErr]
        ELSE IF res.affected = 0
        THEN [tbl |-> res.tbl, err |-> ErrNoEntry(name), panic |-> NoErr]
        ELSE [tbl |-> res.tbl, err |-> NoErr, panic |-> NoErr]

\* Instance.Delete
InstanceDelete(tbl, name, fault) ==
    LET res == ExecDelete(tbl, name, fault = "exec")
    IN  IF res.failed THEN [tbl |-> tbl, err |-> NoErr, panic |-> ErrDeleteFailed(name)]
        ELSE IF fault = "rowsAffected" THEN [tbl |-> res.tbl, err |-> NoErr, panic |-> NoErr]
        ELSE IF res.affected = 0
        THEN [tbl |-> res.tbl, err |-> ErrNoEntry(name), panic |-> NoErr]
        ELSE [tbl |-> res.tbl, err |-> NoErr, panic |-> NoErr]

----------------------------------------------------------------------------
(* The state machine: callers invoke the operations one after the other.   *)
(* `last` records the last call, what it returned (res, err) and the value *)
(* it panicked with (panic); `before` is the table the call started from.  *)

QueryFaults == {"none", "query"}
SetFaults == {"none", "query", "exec"}
DeleteFaults == {"none", "exec", "rowsAffected"}

Call(op, name, value, fault, res, err, panic) ==
    [op |-> op, name |-> name, value |-> value, fault |-> fault,
     res |-> res, err |-> err, panic |-> panic]

\* NewInstance on a fresh database: the table exists and is empty
Init ==
    /\ table = {}
    /\ before = {}
    /\ last = Call("NewInstance", "", NilV, "none", NilV, NoErr, NoErr)

Exists ==
    \E name \in Names, fault \in QueryFaults :
        LET r == InstanceExists(table, name, fault)
        IN  /\ table' = table
            /\ before' = table
            /\ last' = Call("Exists", name, NilV, fault, BoolV(r.res), NoErr, r.panic)

Get ==
    \E name \in Names, fault \in QueryFaults :
        LET r == InstanceGet(table, name, fault)
        IN  /\ table' = table
            /\ before' = table
            /\ last' = Call("Get", name, NilV, fault, r.res, r.err, NoErr)

\* MustGet panics with the error of Get
MustGet ==
    \E name \in Names, fault \in QueryFaults :
        LET r == InstanceGet(table, name, fault)
        IN  /\ table' = table
            /\ before' = table
            /\ last' = Call("MustGet", name, NilV, fault, r.res, NoErr, r.err)

Set ==
    \E name \in Names, value \in Values, fault \in SetFaults :
        LET r == InstanceSet(table, name, value, fault)
        IN  /\ table' = r.tbl
            /\ before' = table
            /\ last' = Call("Set", name, value, fault, NilV, r.err, NoErr)

\* MustSet panics with the error of Set
MustSet ==
    \E name \in Names, value \in Values, fault \in SetFaults :
        LET r == InstanceSet(table, name, value, fault)
        IN  /\ table' = r.tbl
            /\ before' = table
            /\ last' = Call("MustSet", name, value, fault, NilV, NoErr, r.err)

ForceSet ==
    \E name \in Names, value \in Values, fault \in SetFaults :
        LET r == InstanceForceSet(table, name, value, fault)
        IN  /\ table' = r.tbl
            /\ before' = table
            /\ last' = Call("ForceSet", name, value, fault, NilV, r.err, NoErr)

\* MustForceSet panics with the error of ForceSet
MustForceSet ==
    \E name \in Names, value \in Values, fault \in SetFaults :
        LET r == InstanceForceSet(table, name, value, fault)
        IN  /\ table' = r.tbl
            /\ before' = table
            /\ last' = Call("MustForceSet", name, value, fault, NilV, NoErr, r.err)

Delete ==
    \E name \in Names, fault \in DeleteFaults :
        LET r == InstanceDelete(table, name, fault)
        IN  /\ table' = r.tbl
            /\ before' = table
            /\ last' = Call("Delete", name, NilV, fault, NilV, r.err, r.panic)

\* MustDelete panics with the error of Delete (or with Delete's own panic)
MustDelete ==
    \E name \in Names, fault \in DeleteFaults :
        LET r == InstanceDelete(table, name, fault)
        IN  /\ table' = r.tbl
            /\ before' = table
            /\ last' = Call("MustDelete", name, NilV, fault, NilV, NoErr,
                            IF r.panic # NoErr THEN r.panic ELSE r.err)

\* callers that handle the returned errors
Next ==
    \/ Exists
    \/ Get
    \/ Set
    \/ ForceSet
    \/ Delete

Spec == Init /\ [][Next]_vars

----------------------------------------------------------------------------
(* Rows written out of band: the fixtures of the tests, inserted straight  *)
(* through instance.DB with any ValueType.                                 *)

\* fixture values of TestFromBlobString: a valid boolean, a text no parser
\* accepts, an integer and a float
FixtureValues ==
    { BoolV(TRUE), StringV(<<"m", "a", "y", "b", "e">>), IntV(239), FloatV(2142, -2) }

\* the ValueType column of the fixtures: the four known tags and 100
FixtureTypes == {0, 1, 2, 3, 100}

ErrFixture == [kind |-> "tests: failed to insert fixtures", name |-> ""]

\* InsertFixtures with one fixture; it panics when the INSERT fails
InsertFixtures ==
    \E name \in Names, value \in FixtureValues, valueType \in FixtureTypes :
        LET r == ExecInsert(table, name, value, valueType, FALSE)
        IN  /\ table' = r.tbl
            /\ before' = table
            /\ last' = Call("InsertFixtures", name, value, "none", NilV, NoErr,
                            IF r.failed THEN ErrFixture ELSE NoErr)

NextFixtures ==
    \/ InsertFixtures
    \/ Get
    \/ Delete

SpecFixtures == Init /\ [][NextFixtures]_vars

----------------------------------------------------------------------------
(* The codec on its own: a value is turned into a blob string and a type   *)
(* tag, and these are turned back into a value.  In this specification     *)
(* table holds the one (blob string, tag) pair last produced and before is *)
(* not used.                                                               *)

\* texts given to the codec as strings: empty, texts the parsers of the other
\* types accept, and a text with a NUL character
CodecStrings ==
    { <<>>, <<"1">>, <<"t", "r", "u", "e">>, <<"-", "1", "E", "+", "0", "0">>,
      <<"N", "a", "N">>, <<"h", "i", "NUL", "!">> }

\* the digits of the floats given to the codec; 436812 * 10^-4 is the float
\* of TestBlobStringConversion
CodecMantissas == { 1, -1, 5, 11, -12, 436812 }

CodecValues ==
    { BoolV(TRUE), BoolV(FALSE) }
    \cup { IntV(i) : i \in -MaxNum..MaxNum }
    \cup { FloatV(m, e) : m \in CodecMantissas, e \in -MaxExp..MaxExp }
    \cup { FloatV(0, 0), NaNV, InfV(FALSE), InfV(TRUE) }
    \cup { StringV(t) : t \in CodecStrings }
    \cup { SliceV, NilV }

\* one value of every kind
KindValues ==
    { BoolV(FALSE), IntV(0), IntV(-MaxNum), FloatV(436812, -4), NaNV, StringV(<<"1">>),
      SliceV, NilV }

ToBlobString ==
    \E value \in CodecValues :
        LET r == toBlobString(value)
        IN  /\ table' = IF r.err = NoErr THEN { Row("", r.value, r.valueType) } ELSE {}
            /\ before' = before
            /\ last' = Call("toBlobString", "", value, "none", StringV(r.value), r.err, NoErr)

FromBlobString ==
    /\ last.op = "toBlobString"
    /\ \E row \in table :
           LET r == fromBlobString(row.Value, row.ValueType)
           IN  /\ table' = table
               /\ before' = before
               /\ last' = Call("fromBlobString", "", last.value, "none", r.res, r.err, NoErr)

ToValueType ==
    \E value \in KindValues :
        LET r == toValueType(value)
        IN  /\ table' = table
            /\ before' = before
            /\ last' = Call("toValueType", "", value, "none", IntV(r.valueType), r.err, NoErr)

NextCodec ==
    \/ ToBlobString
    \/ FromBlobString
    \/ ToValueType

SpecCodec == Init /\ [][NextCodec]_vars

----------------------------------------------------------------------------
(* Several callers on one Instance.  The package takes no lock and opens   *)
(* no transaction: each SQL statement is one step, and between the SELECT  *)
(* of getValueType and the INSERT or UPDATE of the same call the other     *)
(* callers take steps.  In this specification last is a record: who took   *)
(* the last step, the call that step belongs to (done), the error the call *)
(* returned, and the calls in flight (pend).                               *)

Callers == 1..NumCallers

ConcNames == { "foo" }

ConcValues == { BoolV(TRUE), IntV(1873) }

\* a caller between two calls
Idle ==
    [pc |-> "idle", op |-> "", name |-> "", value |-> NilV, valueType |-> 0,
     next |-> "", seen |-> {}]

InitConc ==
    /\ table = {}
    /\ before = {}
    /\ last = [who |-> 0, done |-> Idle, err |-> NoErr, pend |-> [c \in Callers |-> Idle]]

\* a caller enters Set or ForceSet and runs it up to the type comparison
SetLookup ==
    \E c \in Callers, op \in {"Set", "ForceSet"}, name \in ConcNames, value \in ConcValues :
        LET r == setLookup(table, name, value, op = "ForceSet")
            call == [pc |-> IF r.next = "return" THEN "done" ELSE "write",
                     op |-> op, name |-> name, value |-> value, valueType |-> r.valueType,
                     next |-> r.next, seen |-> SelectRows(table, name)]
        IN  /\ last.pend[c].pc = "idle"
            /\ table' = table
            /\ before' = table
            /\ last' = [who |-> c, done |-> call, err |-> r.err,
                        pend |-> [last.pend EXCEPT ![c] = IF r.next = "return" THEN Idle ELSE call]]

\* a caller in Set or ForceSet executes its INSERT or UPDATE and returns
SetWrite ==
    \E c \in Callers :
        LET call == last.pend[c]
            r == setWrite(table, call.name, call.value, call.valueType, call.next)
        IN  /\ call.pc = "write"
            /\ table' = r.tbl
            /\ before' = table
            /\ last' = [who |-> c, done |-> [call EXCEPT !.pc = "done"], err |-> r.err,
                        pend |-> [last.pend EXCEPT ![c] = Idle]]

\* a caller runs Delete: one statement
ConcDelete ==
    \E c \in Callers, name \in ConcNames :
        LET r == InstanceDelete(table, name, "none")
        IN  /\ last.pend[c].pc = "idle"
            /\ table' = r.tbl
            /\ before' = table
            /\ last' = [who |-> c,
                        done |-> [pc |-> "done", op |-> "Delete", name |-> name, value |-> NilV,
                                  valueType |-> 0, next |-> "", seen |-> SelectRows(table, name)],
                        err |-> r.err, pend |-> last.pend]

\* a caller enters Set (never ForceSet) and runs it up to the type comparison
StrictSetLookup ==
    \E c \in Callers, name \in ConcNames, value \in ConcValues :
        LET r == setLookup(table, name, value, FALSE)
            call == [pc |-> IF r.next = "return" THEN "done" ELSE "write",
                     op |-> "Set", name |-> name, value |-> value, valueType |-> r.valueType,
                     next |-> r.next, seen |-> SelectRows(table, name)]
        IN  /\ last.pend[c].pc = "idle"
            /\ table' = table
            /\ before' = table
            /\ last' = [who |-> c, done |-> call, err |-> r.err,
                        pend |-> [last.pend EXCEPT ![c] = IF r.next = "return" THEN Idle ELSE call]]

\* callers that use Set and Delete only
NextStrict ==
    \/ StrictSetLookup
    \/ SetWrite
    \/ ConcDelete

SpecStrict == InitConc /\ [][NextStrict]_vars

NextConc ==
    \/ SetLookup
    \/ SetWrite
    \/ ConcDelete

SpecConc == InitConc /\ [][NextConc]_vars

----------------------------------------------------------------------------
(* Several databases and several Instances.  In this specification table   *)
(* maps each database to its metadata table (created tells whether the     *)
(* table exists), and last records the last call together with the DB      *)
(* field of every Instance variable of the program before and after it     *)
(* (0 is the nil handle, and the nil *Instance).                           *)

DBs == 1..NumDBs

\* the variables of the program that hold the result of NewInstance
Instances == { "instance", "other" }

InstanceNames == { "foo" }

InstanceValues == { BoolV(TRUE), IntV(1873) }

\* NewInstance executing DROP TABLE before CREATE TABLE
NewInstanceDropTable(tbl, db, fault) ==
    IF db = 0 THEN [tbl |-> tbl, instance |-> 0, err |-> ErrNilHandle]
    ELSE IF fault = "exec" THEN [tbl |-> tbl, instance |-> 0, err |-> ErrCreateTable]
    ELSE [tbl |-> [tbl EXCEPT ![db] = [created |-> TRUE, rows |-> {}]],
          instance |-> db, err |-> NoErr]

\* NewInstance returning the Instance together with the error of Exec
NewInstanceUnchecked(tbl, db, fault) ==
    IF db = 0 THEN [tbl |-> tbl, instance |-> 0, err |-> ErrNilHandle]
    ELSE IF fault = "exec" THEN [tbl |-> tbl, instance |-> db, err |-> ErrCreateTable]
    ELSE [tbl |-> [tbl EXCEPT ![db].created = TRUE], instance |-> db, err |-> NoErr]

\* NewInstance: CREATE TABLE IF NOT EXISTS keeps the rows of an existing table
NewInstance(tbl, db, fault) ==
    IF db = 0 THEN [tbl |-> tbl, instance |-> 0, err |-> ErrNilHandle]
    ELSE IF fault = "exec" THEN [tbl |-> tbl, instance |-> 0, err |-> ErrCreateTable]
    ELSE [tbl |-> [tbl EXCEPT ![db].created = TRUE], instance |-> db, err |-> NoErr]

\* one package-level database handle for every store (var database *sql.DB,
\* assigned by Prepare)
BindGlobal(handles, inst, instance) == [j \in Instances |-> instance]

\* the handle of the Instance a variable holds after `inst, err = NewInstance(db)`
Bind(handles, inst, instance) == [handles EXCEPT ![inst] = instance]

InstanceCall(op, inst, db, name, value, fault, err, handlesBefore, handles) ==
    [op |-> op, inst |-> inst, db |-> db, name |-> name, value |-> value, fault |-> fault,
     err |-> err, DBbefore |-> handlesBefore, DB |-> handles]

InitInstances ==
    /\ table = [db \in DBs |-> [created |-> FALSE, rows |-> {}]]
    /\ before = [db \in DBs |-> [created |-> FALSE, rows |-> {}]]
    /\ last = InstanceCall("", "", 0, "", NilV, "none", NoErr,
                           [j \in Instances |-> 0], [j \in Instances |-> 0])

CallNewInstance ==
    \E inst \in Instances, db \in DBs \cup {0}, fault \in {"none", "exec"} :
        LET r == NewInstance(table, db, fault)
        IN  /\ table' = r.tbl
            /\ before' = table
            /\ last' = InstanceCall("NewInstance", inst, db, "", NilV, fault, r.err,
                                    last.DB, Bind(last.DB, inst, r.instance))

\* Set or ForceSet through an Instance
CallSet ==
    \E inst \in Instances, op \in {"Set", "ForceSet"}, name \in InstanceNames,
       value \in InstanceValues :
        LET db == last.DB[inst]
            r == set(table[db].rows, name, value, op = "ForceSet", "none")
        IN  /\ db # 0
            /\ table' = [table EXCEPT ![db].rows = r.tbl]
            /\ before' = table
            /\ last' = InstanceCall(op, inst, db, name, value, "none", r.err, last.DB, last.DB)

\* Delete through an Instance
CallDelete ==
    \E inst \in Instances, name \in InstanceNames :
        LET db == last.DB[inst]
            r == InstanceDelete(table[db].rows, name, "none")
        IN  /\ db # 0
            /\ table' = [table EXCEPT ![db].rows = r.tbl]
            /\ before' = table
            /\ last' = InstanceCall("Delete", inst, db, name, NilV, "none", r.err,
                                    last.DB, last.DB)

NextInstances ==
    \/ CallNewInstance
    \/ CallSet
    \/ CallDelete

SpecInstances == InitInstances /\ [][NextInstances]_vars

----------------------------------------------------------------------------
(* The storage round trips of a call: the SQL statements it sends through  *)
(* instance.DB, in order.  Result.RowsAffected reads the result of the     *)
(* DELETE and sends nothing.  In this specification last has one more      *)
(* field, statements.                                                      *)

\* Instance.Exists: QueryRow, Scan
ExistsStatements(tbl, name, fault) == << "SELECT Name" >>

\* Instance.Get: QueryRow, Scan
GetStatements(tbl, name, fault) == << "SELECT Value, ValueType" >>

\* Instance.set sending its INSERT a second time when the first one fails
setStatementsRetry(tbl, name, value, force, fault) ==
    LET vt == toValueType(value)
        cur == getValueType(tbl, name, fault)
    IN  IF vt.err # NoErr THEN << >>
        ELSE IF cur.err # NoErr
        THEN IF cur.err.kind = "ErrNoEntry"
             THEN IF fault = "exec" THEN << "SELECT ValueType", "INSERT", "INSERT" >>
                  ELSE << "SELECT ValueType", "INSERT" >>
             ELSE << "SELECT ValueType" >>
        ELSE IF ~force /\ vt.valueType # cur.valueType THEN << "SELECT ValueType" >>
        ELSE << "SELECT ValueType", "UPDATE" >>

\* Instance.set: getValueType, then the INSERT or the UPDATE
setStatements(tbl, name, value, force, fault) ==
    LET vt == toValueType(value)
        cur == getValueType(tbl, name, fault)
    IN  IF vt.err # NoErr THEN << >>
        ELSE IF cur.err # NoErr
        THEN IF cur.err.kind = "ErrNoEntry"
             THEN << "SELECT ValueType", "INSERT" >>
             ELSE << "SELECT ValueType" >>
        ELSE IF ~force /\ vt.valueType # cur.valueType THEN << "SELECT ValueType" >>
        ELSE << "SELECT ValueType", "UPDATE" >>

\* Instance.Delete: Exec
DeleteStatements(tbl, name, fault) == << "DELETE" >>

TripsExists ==
    \E name \in Names, fault \in QueryFaults :
        LET r == InstanceExists(table, name, fault)
        IN  /\ table' = table
            /\ before' = table
            /\ last' = [statements |-> ExistsStatements(table, name, fault)]
                          @@ Call("Exists", name, NilV, fault, BoolV(r.res), NoErr, r.panic)

TripsGet ==
    \E name \in Names, fault \in QueryFaults :
        LET r == InstanceGet(table, name, fault)
        IN  /\ table' = table
            /\ before' = table
            /\ last' = [statements |-> GetStatements(table, name, fault)]
                          @@ Call("Get", name, NilV, fault, r.res, r.err, NoErr)

TripsSet ==
    \E op \in {"Set", "ForceSet"}, name \in Names, value \in Values, fault \in SetFaults :
        LET r == set(table, name, value, op = "ForceSet", fault)
        IN  /\ table' = r.tbl
            /\ before' = table
            /\ last' = [statements |-> setStatements(table, name, value, op = "ForceSet", fault)]
                          @@ Call(op, name, value, fault, NilV, r.err, NoErr)

TripsDelete ==
    \E name \in Names, fault \in DeleteFaults :
        LET r == InstanceDelete(table, name, fault)
        IN  /\ table' = r.tbl
            /\ before' = table
            /\ last' = [statements |-> DeleteStatements(table, name, fault)]
                          @@ Call("Delete", name, NilV, fault, NilV, r.err, r.panic)

InitTrips ==
    /\ table = {}
    /\ before = {}
    /\ last = [statements |-> << >>]
                @@ Call("NewInstance", "", NilV, "none", NilV, NoErr, NoErr)

NextTrips ==
    \/ TripsExists
    \/ TripsGet
    \/ TripsSet
    \/ TripsDelete

SpecTrips == InitTrips /\ [][NextTrips]_vars

----------------------------------------------------------------------------
(* The reads, on a table that also holds rows written out of band, so that *)
(* Get meets every error of fromBlobString.                                *)

\* a SELECT that removes the rows it returns
QueryRowConsume(tbl, name, fault) ==
    IF fault = "query" THEN [tbl |-> tbl, rows |-> {}]
    ELSE [tbl |-> tbl \ SelectRows(tbl, name), rows |-> SelectRows(tbl, name)]

\* instance.DB.QueryRow("SELECT ... FROM metadata WHERE name = ?", name): the
\* rows it yields and the table it leaves
QueryRow(tbl, name, fault) ==
    IF fault = "query" THEN [tbl |-> tbl, rows |-> {}]
    ELSE [tbl |-> tbl, rows |-> SelectRows(tbl, name)]

ReadExists ==
    \E name \in Names, fault \in QueryFaults :
        LET r == InstanceExists(table, name, fault)
        IN  /\ table' = QueryRow(table, name, fault).tbl
            /\ before' = table
            /\ last' = Call("Exists", name, NilV, fault, BoolV(r.res), NoErr, r.panic)

ReadGet ==
    \E name \in Names, fault \in QueryFaults :
        LET r == InstanceGet(table, name, fault)
        IN  /\ table' = QueryRow(table, name, fault).tbl
            /\ before' = table
            /\ last' = Call("Get", name, NilV, fault, r.res, r.err, NoErr)

ReadMustGet ==
    \E name \in Names, fault \in QueryFaults :
        LET r == InstanceGet(table, name, fault)
        IN  /\ table' = QueryRow(table, name, fault).tbl
            /\ before' = table
            /\ last' = Call("MustGet", name, NilV, fault, r.res, NoErr, r.err)

NextReads ==
    \/ InsertFixtures
    \/ ReadExists
    \/ ReadGet
    \/ ReadMustGet
    \/ Delete

SpecReads == Init /\ [][NextReads]_vars

\* callers that use the Must variants
NextMust ==
    \/ Exists
    \/ MustGet
    \/ MustSet
    \/ MustForceSet
    \/ MustDelete

SpecMust == Init /\ [][NextMust]_vars

----------------------------------------------------------------------------
(* Properties.  In each of them the call is `last`, the store it started   *)
(* from is `before` and the store it left is `table`.  Unless a property   *)
(* says otherwise it is about calls whose storage round trips succeed      *)
(* (last.fault = "none").                                                  *)

\* C1: strict Set on an existing entry with a supported value whose type tag
\* differs from the stored tag fails with the different-type error and leaves
\* the table as it was, so Get returns what it returned before the call; when
\* the entry was readable, it still is.
C1_StrictUpdateInvariant ==
    ( /\ last.op = "Set"
      /\ last.fault = "none"
      /\ SelectRows(before, last.name) # {}
      /\ toValueType(last.value).err = NoErr
      /\ toValueType(last.value).valueType # getValueType(before, last.name, "none").valueType )
    => /\ last.err = ErrDifferentType(last.name)
       /\ table = before
       /\ SelectRows(table, last.name) = SelectRows(before, last.name)
       /\ InstanceGet(table, last.name, "none") = InstanceGet(before, last.name, "none")

\* a Set of an integer on an entry that holds a boolean was rejected and the
\* boolean is still read
C1_Witness ==
    /\ last.op = "Set"
    /\ last.fault = "none"
    /\ last.value.kind = "int"
    /\ last.err = ErrDifferentType(last.name)
    /\ getValueType(before, last.name, "none") = [valueType |-> 0, err |-> NoErr]
    /\ InstanceGet(table, last.name, "none") = [res |-> BoolV(TRUE), err |-> NoErr]

\* C2: ForceSet on an existing entry with a supported value of a different
\* type succeeds, and Get then returns the new value with its type.
C2_ForcedUpdateFreedom ==
    ( /\ last.op = "ForceSet"
      /\ last.fault = "none"
      /\ SelectRows(before, last.name) # {}
      /\ toValueType(last.value).err = NoErr
      /\ toValueType(last.value).valueType # getValueType(before, last.name, "none").valueType )
    => /\ last.err = NoErr
       /\ InstanceGet(table, last.name, "none") = [res |-> last.value, err |-> NoErr]

\* C3: after a successful ForceSet on an existing entry the stored type tag is
\* the tag of the new value and the stored value is the new value.
C3_ForceSetOverwritesBoth ==
    ( /\ last.op = "ForceSet"
      /\ last.fault = "none"
      /\ last.err = NoErr
      /\ SelectRows(before, last.name) # {} )
    => SelectRows(table, last.name)
         = { Row(last.name, BlobString(last.value), toValueType(last.value).valueType) }

\* C4: every stored value parses under its stored type tag, so Get never fails
\* with ErrFailedToParse (the specification has no out-of-band writes).
C4_StoredValuesParse ==
    \A r \in table :
        /\ fromBlobString(r.Value, r.ValueType).err # ErrFailedToParse
        /\ InstanceGet(table, r.Name, "none").err # ErrFailedToParse

\* C5: Set and ForceSet of a supported value on a name without an entry succeed
\* and create exactly one row for the name, tagged with the tag of the value;
\* Get then returns the value with its type.
C5_InsertWhenAbsent ==
    ( /\ last.op \in {"Set", "ForceSet"}
      /\ last.fault = "none"
      /\ SelectRows(before, last.name) = {}
      /\ toValueType(last.value).err = NoErr )
    => /\ last.err = NoErr
       /\ Cardinality(SelectRows(table, last.name)) = 1
       /\ \A r \in SelectRows(table, last.name) :
              r.ValueType = toValueType(last.value).valueType
       /\ table = before \cup SelectRows(table, last.name)
       /\ InstanceGet(table, last.name, "none") = [res |-> last.value, err |-> NoErr]

\* a ForceSet created an integer entry next to an existing entry
C5_Witness ==
    /\ last.op = "ForceSet"
    /\ last.fault = "none"
    /\ last.err = NoErr
    /\ last.value.kind = "int"
    /\ SelectRows(before, last.name) = {}
    /\ before # {}
    /\ SelectRows(table, last.name) # {}

\* C6: strict Set on an existing entry whose stored tag is the tag of the value
\* succeeds, replaces the stored value and keeps the tag; Get then returns the
\* value of this (the last) Set.
C6_SameTypeUpdate ==
    ( /\ last.op = "Set"
      /\ last.fault = "none"
      /\ SelectRows(before, last.name) # {}
      /\ toValueType(last.value).err = NoErr
      /\ toValueType(last.value).valueType = getValueType(before, last.name, "none").valueType )
    => /\ last.err = NoErr
       /\ SelectRows(table, last.name)
            = { Row(last.name, BlobString(last.value),
                    getValueType(before, last.name, "none").valueType) }
       /\ InstanceGet(table, last.name, "none") = [res |-> last.value, err |-> NoErr]

\* a Set of false replaced a stored true
C6_Witness ==
    /\ last.op = "Set"
    /\ last.fault = "none"
    /\ last.err = NoErr
    /\ last.value = BoolV(FALSE)
    /\ InstanceGet(before, last.name, "none") = [res |-> BoolV(TRUE), err |-> NoErr]
    /\ InstanceGet(table, last.name, "none") = [res |-> BoolV(FALSE), err |-> NoErr]

\* C7: Set, Get and Exists never change the type of an entry: the first
\* successful Set of a name stores the tag of its value, and afterwards an
\* entry keeps its tag (whether the call succeeds or fails) and a readable
\* entry stays readable with a value of the same type.
C7_TypeEstablishedOnce ==
    last.op \in {"Set", "Get", "Exists"} =>
        \A name \in Names :
            /\ ( SelectRows(before, name) = {} /\ SelectRows(table, name) # {} )
               => /\ last.op = "Set"
                  /\ last.name = name
                  /\ last.err = NoErr
                  /\ getValueType(table, name, "none").valueType
                       = toValueType(last.value).valueType
            /\ SelectRows(before, name) # {}
               => /\ SelectRows(table, name) # {}
                  /\ getValueType(table, name, "none") = getValueType(before, name, "none")
                  /\ InstanceGet(before, name, "none").err = NoErr
                     => /\ InstanceGet(table, name, "none").err = NoErr
                        /\ InstanceGet(table, name, "none").res.kind
                             = InstanceGet(before, name, "none").res.kind

\* a Set changed the value of an entry (and kept its tag)
C7_Witness ==
    /\ last.op = "Set"
    /\ last.err = NoErr
    /\ SelectRows(before, last.name) # {}
    /\ SelectRows(table, last.name) # SelectRows(before, last.name)
    /\ getValueType(table, last.name, "none") = getValueType(before, last.name, "none")

\* C8: Get on a name without an entry fails with ErrNoEntry carrying the
\* requested name and returns no value.
C8_GetMissing ==
    ( /\ last.op = "Get"
      /\ last.fault = "none"
      /\ SelectRows(before, last.name) = {} )
    => /\ last.err = ErrNoEntry(last.name)
       /\ last.res = NilV

\* a Get on a missing name, in a store that holds another entry
C8_Witness ==
    /\ last.op = "Get"
    /\ last.fault = "none"
    /\ SelectRows(table, last.name) = {}
    /\ table # {}
    /\ last.err.kind = "ErrNoEntry"

\* C9: Delete on a name with an entry succeeds and removes it: Exists then
\* returns false and Get fails with ErrNoEntry.
C9_DeleteExisting ==
    ( /\ last.op = "Delete"
      /\ last.fault # "exec"
      /\ SelectRows(before, last.name) # {} )
    => /\ last.err = NoErr
       /\ last.panic = NoErr
       /\ InstanceExists(table, last.name, "none") = [res |-> FALSE, panic |-> NoErr]
       /\ InstanceGet(table, last.name, "none") = [res |-> NilV, err |-> ErrNoEntry(last.name)]

\* a Delete removed an entry
C9_Witness ==
    /\ last.op = "Delete"
    /\ last.fault = "none"
    /\ last.err = NoErr
    /\ SelectRows(before, last.name) # {}
    /\ SelectRows(table, last.name) = {}

\* C10: Delete on a name without an entry fails with ErrNoEntry(name) when the
\* backend reports the affected rows, and leaves the table as it was.
C10_DeleteMissing ==
    ( /\ last.op = "Delete"
      /\ last.fault = "none"
      /\ SelectRows(before, last.name) = {} )
    => /\ last.err = ErrNoEntry(last.name)
       /\ last.panic = NoErr
       /\ table = before

\* a Delete of a missing name in a store that holds another entry
C10_Witness ==
    /\ last.op = "Delete"
    /\ last.fault = "none"
    /\ last.err.kind = "ErrNoEntry"
    /\ SelectRows(before, last.name) = {}
    /\ table # {}


\* C11: Set and ForceSet with a value that is not a bool, int, float64 or
\* string fail with the disallowed-type error before any storage round trip:
\* the table is left as it was, whether the name has an entry or not and
\* whatever the backend would have answered.
C11_DisallowedTypeNoWrite ==
    ( /\ last.op \in {"Set", "ForceSet"}
      /\ last.value.kind \notin {"bool", "int", "float64", "string"} )
    => /\ last.err = ErrDisallowedType
       /\ table = before

\* a ForceSet of a []string on a name that has an entry
C11_Witness ==
    /\ last.op = "ForceSet"
    /\ last.value = SliceV
    /\ last.err = ErrDisallowedType
    /\ SelectRows(before, last.name) # {}
    /\ SelectRows(table, last.name) # {}

\* C14: Exists(name) is true exactly when an entry for name is present, that
\* is when the last successful Set / ForceSet of name was not followed by a
\* successful Delete of name; an Exists call returns that answer.
C14_ExistsIffPresent ==
    /\ \A name \in Names :
           InstanceExists(table, name, "none").res
             = IF last.op \in {"Set", "ForceSet"} /\ last.name = name /\ last.err = NoErr
               THEN TRUE
               ELSE IF /\ last.op = "Delete" /\ last.name = name
                       /\ last.err = NoErr /\ last.panic = NoErr
               THEN FALSE
               ELSE InstanceExists(before, name, "none").res
    /\ ( last.op = "Exists" /\ last.fault = "none" )
       => /\ last.panic = NoErr
          /\ last.res = BoolV(\E r \in table : r.Name = last.name)

\* Exists answered true for one name and, in the same store, the other name
\* is missing
C14_Witness ==
    /\ last.op = "Exists"
    /\ last.fault = "none"
    /\ last.res = BoolV(TRUE)
    /\ \E name \in Names : ~InstanceExists(table, name, "none").res

\* C16: every row written through Set or ForceSet (in any sequence with
\* Delete) has a type tag in {0, 1, 2, 3}.
C16_KnownTagsOnly ==
    \A r \in table : r.ValueType \in {0, 1, 2, 3}

\* a store holding a string entry (tag 3) and a boolean entry (tag 0)
C16_Witness ==
    /\ \E r \in table : r.ValueType = 3
    /\ \E r \in table : r.ValueType = 0
    /\ last.op \in {"Set", "ForceSet"}
    /\ last.err = NoErr

\* C17: after a successful Delete of an entry, a strict Set of the name with a
\* value of any supported type (the type of the deleted entry or another one)
\* succeeds and inserts a row tagged with the tag of the value.
C17_NoTerminalState ==
    ( /\ last.op = "Delete"
      /\ last.err = NoErr
      /\ last.panic = NoErr
      /\ SelectRows(before, last.name) # {} )
    => \A value \in Values :
           toValueType(value).err = NoErr
           => InstanceSet(table, last.name, value, "none")
                = [tbl |-> table \cup { Row(last.name, BlobString(value),
                                            toValueType(value).valueType) },
                   err |-> NoErr]

\* a boolean entry was deleted, and an integer can be set under its name
C17_Witness ==
    /\ last.op = "Delete"
    /\ last.err = NoErr
    /\ last.panic = NoErr
    /\ getValueType(before, last.name, "none") = [valueType |-> 0, err |-> NoErr]
    /\ \E value \in Values :
           /\ value.kind = "int"
           /\ InstanceSet(table, last.name, value, "none").err = NoErr
           /\ getValueType(InstanceSet(table, last.name, value, "none").tbl,
                           last.name, "none") = [valueType |-> 1, err |-> NoErr]


\* C12: decoding under a type tag outside {0, 1, 2, 3} fails with the
\* unrecognizable-type error whatever the text is; Get on a row inserted out
\* of band with such a tag returns that error and no value, does not panic and
\* leaves the table as it was.
C12_UnknownTypeTag ==
    /\ \A r \in table :
           r.ValueType \notin {0, 1, 2, 3}
           => fromBlobString(r.Value, r.ValueType) = [res |-> NilV, err |-> ErrUnrecognizable]
    /\ ( /\ last.op = "Get"
         /\ last.fault = "none"
         /\ \E r \in SelectRows(before, last.name) : r.ValueType \notin {0, 1, 2, 3} )
       => /\ last.err = ErrUnrecognizable
          /\ last.res = NilV
          /\ last.panic = NoErr
          /\ table = before

\* Get on a row with ValueType 100 whose text is a valid number
C12_Witness ==
    /\ last.op = "Get"
    /\ last.fault = "none"
    /\ last.err = ErrUnrecognizable
    /\ SelectRows(table, last.name) = { Row(last.name, <<"2", "3", "9">>, 100) }

\* C13: decoding dispatches on the tag.  Under tags 0, 1 and 2 a text outside
\* the boolean / decimal integer / float grammar gives ErrFailedToParse and no
\* value; under tag 3 decoding never fails and returns the text itself; the
\* text "1" decodes to true, the integer 1, the float 1 and the string "1"
\* under tags 0, 1, 2 and 3.  Get returns what decoding the row gives.
C13_DecodeDispatch ==
    /\ \A r \in table :
           LET d == fromBlobString(r.Value, r.ValueType)
           IN  /\ ( \/ r.ValueType = 0 /\ ~ParseBool(r.Value).ok
                    \/ r.ValueType = 1 /\ ~ParseInt(r.Value).ok
                    \/ r.ValueType = 2 /\ ~ParseFloat(r.Value).ok )
                  => d = [res |-> NilV, err |-> ErrFailedToParse]
               /\ r.ValueType = 3 => d = [res |-> StringV(r.Value), err |-> NoErr]
               /\ r.Value = <<"1">> =>
                      /\ r.ValueType = 0 => d = [res |-> BoolV(TRUE), err |-> NoErr]
                      /\ r.ValueType = 1 => d = [res |-> IntV(1), err |-> NoErr]
                      /\ r.ValueType = 2 => d = [res |-> FloatV(1, 0), err |-> NoErr]
               /\ r.Value = <<"2", "1", ".", "4", "2">> =>
                      /\ r.ValueType \in {0, 1} => d.err = ErrFailedToParse
                      /\ r.ValueType = 2 => d = [res |-> FloatV(2142, -2), err |-> NoErr]
               /\ r.Value = <<"m", "a", "y", "b", "e">> /\ r.ValueType \in {0, 1, 2}
                  => d.err = ErrFailedToParse
    /\ ( last.op = "Get" /\ last.fault = "none" )
       => \A r \in SelectRows(before, last.name) :
              /\ last.panic = NoErr
              /\ [res |-> last.res, err |-> last.err] = fromBlobString(r.Value, r.ValueType)
              /\ ( r.ValueType \in {0, 1, 2} /\ r.Value = <<"m", "a", "y", "b", "e">> )
                 => last.err = ErrFailedToParse /\ last.res = NilV

\* Get failed to parse the text "maybe" stored under the float tag, next to a
\* row holding the same text under the string tag
C13_Witness ==
    /\ last.op = "Get"
    /\ last.fault = "none"
    /\ last.err = ErrFailedToParse
    /\ Row(last.name, <<"m", "a", "y", "b", "e">>, 2) \in table
    /\ \E r \in table : r.ValueType = 3 /\ r.Value = <<"m", "a", "y", "b", "e">>


C19_TypeTags ==
    last.op = "toValueType"
    => /\ last.value.kind = "bool" => last.res = IntV(0) /\ last.err = NoErr
       /\ last.value.kind = "int" => last.res = IntV(1) /\ last.err = NoErr
       /\ last.value.kind = "float64" => last.res = IntV(2) /\ last.err = NoErr
       /\ last.value.kind = "string" => last.res = IntV(3) /\ last.err = NoErr
       /\ last.value.kind \notin {"bool", "int", "float64", "string"}
          => last.err = ErrDisallowedType

\* toValueType refused a slice
C19_Witness ==
    /\ last.op = "toValueType"
    /\ last.value = SliceV
    /\ last.err = ErrDisallowedType


\* C15: whatever Set, ForceSet and Delete calls the callers make and however
\* their statements interleave, the table holds at most one row per name.
C15_OneEntryPerName ==
    \A name \in ConcNames : Cardinality(SelectRows(table, name)) <= 1

\* two callers found no entry for the same name; the second INSERT failed and
\* one row exists
C15_Witness ==
    /\ last.done.op \in {"Set", "ForceSet"}
    /\ last.done.next = "insert"
    /\ last.err = ErrInsertFailed(last.done.name)
    /\ Cardinality(SelectRows(table, last.done.name)) = 1

\* C20: the lookup and the write of set are separate steps.  A call that no
\* other caller's write separated them for behaves like set run in one piece;
\* a call that differs from that is one of: an INSERT refused because another
\* caller inserted first; an UPDATE of a row another caller deleted, which
\* reports success and stores nothing; a Set that stores its value in a row
\* whose type is not the one it compared with.
C20_SetNotAtomic ==
    LET call == last.done
        rows == SelectRows(before, call.name)
        outcome == [tbl |-> table, err |-> last.err]
        atomic == set(before, call.name, call.value, call.op = "ForceSet", "none")
    IN  ( call.pc = "done" /\ call.op \in {"Set", "ForceSet"} )
        => /\ call.seen = rows => outcome = atomic
           /\ outcome # atomic
              => \/ /\ call.next = "insert"
                    /\ rows # {}
                    /\ outcome = [tbl |-> before, err |-> ErrInsertFailed(call.name)]
                 \/ /\ call.next = "update"
                    /\ rows = {}
                    /\ outcome = [tbl |-> before, err |-> NoErr]
                 \/ /\ call.next = "update"
                    /\ call.op = "Set"
                    /\ last.err = NoErr
                    /\ \E r \in rows :
                           /\ r.ValueType # call.valueType
                           /\ table = (before \ {r})
                                \cup { Row(call.name, BlobString(call.value), r.ValueType) }

\* Set(foo, true) compared with a bool entry; before its UPDATE another caller
\* deleted the entry and set it to 1873; the UPDATE then replaced 1873 by the
\* text of true in the int entry and Set returned no error
C20_Witness ==
    /\ last.done.pc = "done"
    /\ last.done.op = "Set"
    /\ last.done.value = BoolV(TRUE)
    /\ last.err = NoErr
    /\ SelectRows(before, "foo") = { Row("foo", <<"1", "8", "7", "3">>, 1) }
    /\ SelectRows(table, "foo") = { Row("foo", <<"1">>, 1) }


\* C21: Get, Set, ForceSet and Delete never panic; when the SELECT or the
\* INSERT / UPDATE / DELETE of the call fails in the backend, the call returns
\* an error.
C21_FailuresReturned ==
    ( last.op \in {"Get", "Set", "ForceSet", "Delete"} )
    => /\ last.panic = NoErr
       /\ ( /\ last.fault \in {"query", "exec"}
            /\ last.op \in {"Set", "ForceSet"} => toValueType(last.value).err = NoErr )
          => last.err # NoErr

\* C23: when Result.RowsAffected fails, Delete returns nil whether the name
\* had an entry or not, does not panic, and the entry of the name is gone;
\* the other entries are left as they were.
C23_DeleteWithoutRowsAffected ==
    ( last.op = "Delete" /\ last.fault = "rowsAffected" )
    => /\ last.err = NoErr
       /\ last.panic = NoErr
       /\ table = before \ SelectRows(before, last.name)

\* Delete of a name without an entry returned nil, next to another entry
C23_Witness ==
    /\ last.op = "Delete"
    /\ last.fault = "rowsAffected"
    /\ last.err = NoErr
    /\ SelectRows(before, last.name) = {}
    /\ table # {}

\* C28: on a name without an entry, or with an entry whose ValueType is the
\* type of the value, ForceSet and Set of a supported value return the same
\* error and leave the same table, whatever the backend answers.
C28_ForceSetLikeSet ==
    /\ \A name \in Names, value \in Values, fault \in SetFaults :
           ( /\ toValueType(value).err = NoErr
             /\ \A r \in SelectRows(table, name) : r.ValueType = toValueType(value).valueType )
           => InstanceForceSet(table, name, value, fault) = InstanceSet(table, name, value, fault)
    /\ ( /\ last.op = "ForceSet"
         /\ toValueType(last.value).err = NoErr
         /\ \A r \in SelectRows(before, last.name) :
                r.ValueType = toValueType(last.value).valueType )
       => [tbl |-> table, err |-> last.err]
            = InstanceSet(before, last.name, last.value, last.fault)

\* ForceSet replaced the value of an entry of the same type
C28_Witness ==
    /\ last.op = "ForceSet"
    /\ last.fault = "none"
    /\ last.err = NoErr
    /\ \E r \in SelectRows(before, last.name) :
           /\ r.ValueType = toValueType(last.value).valueType
           /\ r.Value # BlobString(last.value)
    /\ table # before

\* C29: after ForceSet has replaced an entry of type T by a value of another
\* type U, Set with a value of type U succeeds and Set with a value of type T
\* fails with the different-type error.
C29_StrictFollowsForcedType ==
    ( /\ last.op = "ForceSet"
      /\ last.fault = "none"
      /\ last.err = NoErr
      /\ \E r \in SelectRows(before, last.name) :
             r.ValueType # toValueType(last.value).valueType )
    => \A value \in Values, r \in SelectRows(before, last.name) :
           /\ value.kind = last.value.kind
              => InstanceSet(table, last.name, value, "none").err = NoErr
           /\ ( toValueType(value).err = NoErr /\ toValueType(value).valueType = r.ValueType )
              => InstanceSet(table, last.name, value, "none").err = ErrDifferentType(last.name)

\* C30: Exists returns false only when the table has no row for the name; when
\* the query fails otherwise it panics, and when it does not fail it returns
\* whether a row exists.
C30_ExistsNeverSwallows ==
    last.op = "Exists"
    => /\ last.fault = "query" => last.panic = ErrExistsFailed
       /\ ( last.panic = NoErr /\ last.res = BoolV(FALSE) )
          => /\ last.fault = "none"
             /\ SelectRows(table, last.name) = {}
       /\ last.fault = "none"
          => /\ last.panic = NoErr
             /\ last.res = BoolV(SelectRows(table, last.name) # {})

\* the query of Exists failed on a name that has an entry, and Exists panicked
C30_Witness ==
    /\ last.op = "Exists"
    /\ last.fault = "query"
    /\ last.panic = ErrExistsFailed
    /\ SelectRows(table, last.name) # {}


\* C22: a Must variant panics exactly when the operation it wraps returns an
\* error, and then with that error; otherwise it returns what the operation
\* returns; in both cases it leaves the table the operation leaves.
C22_MustVariants ==
    LET get == InstanceGet(before, last.name, last.fault)
        st == InstanceSet(before, last.name, last.value, last.fault)
        fst == InstanceForceSet(before, last.name, last.value, last.fault)
        del == InstanceDelete(before, last.name, last.fault)
    IN  /\ last.op = "MustGet"
           => /\ last.panic = get.err
              /\ last.res = get.res
              /\ table = before
        /\ last.op = "MustSet" => last.panic = st.err /\ table = st.tbl
        /\ last.op = "MustForceSet" => last.panic = fst.err /\ table = fst.tbl
        /\ last.op = "MustDelete" => last.panic = del.err /\ table = del.tbl


\* C24: a call of NewInstance, and a call through an Instance, leaves the
\* handle of every other Instance as it was, and leaves the table of every
\* database other than its own as it was: an Instance on another connection
\* observes the entries it observed before.
C24_InstancesIndependent ==
    last.op # ""
    => /\ \A j \in Instances \ {last.inst} : last.DB[j] = last.DBbefore[j]
       /\ \A db \in DBs \ {last.db} : table[db] = before[db]
       /\ \A j \in Instances \ {last.inst} :
              ( last.DB[j] # 0 /\ last.DB[j] # last.db )
              => table[last.DB[j]].rows = before[last.DBbefore[j]].rows

\* a second Instance was made on its own connection and used, while the first
\* holds an entry in its own database
C24_Witness ==
    /\ last.op \in {"Set", "ForceSet"}
    /\ last.err = NoErr
    /\ \E j \in Instances :
           /\ j # last.inst
           /\ last.DB[j] # 0
           /\ last.DB[j] # last.db
           /\ table[last.DB[j]].rows # {}
           /\ table[last.DB[j]].rows # table[last.db].rows

\* C25: NewInstance on a database whose metadata table exists succeeds and
\* leaves every row of the table (Name, Value, ValueType) as it was.
C25_NewInstanceIdempotent ==
    ( /\ last.op = "NewInstance"
      /\ last.db # 0
      /\ last.fault = "none"
      /\ before[last.db].created )
    => /\ last.err = NoErr
       /\ last.DB[last.inst] = last.db
       /\ table = before

\* NewInstance on a database whose table holds an entry
C25_Witness ==
    /\ last.op = "NewInstance"
    /\ last.db # 0
    /\ last.err = NoErr
    /\ before[last.db].created
    /\ before[last.db].rows # {}
    /\ table[last.db].rows = before[last.db].rows

\* C26: NewInstance returns an error and a nil Instance for a nil handle and
\* when CREATE TABLE fails, and changes nothing then; otherwise it returns no
\* error and an Instance on the handle, whose table exists.  No Instance is
\* bound to the nil handle or to a database without the table.
C26_NewInstanceErrors ==
    /\ last.op = "NewInstance"
       => IF last.db = 0 \/ last.fault = "exec"
          THEN /\ last.err = (IF last.db = 0 THEN ErrNilHandle ELSE ErrCreateTable)
               /\ last.DB[last.inst] = 0
               /\ table = before
          ELSE /\ last.err = NoErr
               /\ last.DB[last.inst] = last.db
               /\ table[last.db].created
    /\ \A j \in Instances : last.DB[j] # 0 => table[last.DB[j]].created

\* CREATE TABLE failed on a database that has no table, and no Instance came back
C26_Witness ==
    /\ last.op = "NewInstance"
    /\ last.db # 0
    /\ last.fault = "exec"
    /\ last.err = ErrCreateTable
    /\ ~table[last.db].created
    /\ last.DB[last.inst] = 0


\* C27: every call is over after its round trips, whether they succeed or
\* fail: Exists, Get and Delete send exactly one statement; Set and ForceSet
\* send at most two, the SELECT of the type and then at most one INSERT or
\* UPDATE, and none when the value has a disallowed type.  The table changes
\* only in a call that sent an INSERT, an UPDATE or a DELETE.
C27_RoundTrips ==
    LET st == last.statements
    IN  /\ last.op \in {"Exists", "Get", "Delete"} => Len(st) = 1
        /\ last.op \in {"Set", "ForceSet"}
           => /\ Len(st) <= 2
              /\ Len(st) = 0 <=> toValueType(last.value).err # NoErr
              /\ Len(st) >= 1 => st[1] = "SELECT ValueType"
              /\ Len(st) = 2 => st[2] \in {"INSERT", "UPDATE"}
              /\ ( last.fault = "query" /\ Len(st) >= 1 ) => Len(st) = 1 /\ last.err = ErrBackend
        /\ table # before
           => st[Len(st)] \in {"INSERT", "UPDATE", "DELETE"} /\ last.fault # "exec"

\* the INSERT of a Set failed: the call returned the error after two statements
C27_Witness ==
    /\ last.op = "Set"
    /\ last.fault = "exec"
    /\ last.statements = << "SELECT ValueType", "INSERT" >>
    /\ last.err = ErrInsertFailed(last.name)
    /\ table = before


\* C31: when getValueType fails with an error other than ErrNoEntry, Set and
\* ForceSet return that error after the SELECT alone; when the INSERT or the
\* UPDATE fails they return an error after that one statement; in both cases
\* the table is left as it was.
C31_SetBackendErrors ==
    ( /\ last.op \in {"Set", "ForceSet"}
      /\ toValueType(last.value).err = NoErr )
    => /\ last.fault = "query"
          => /\ last.err = ErrBackend
             /\ last.statements = << "SELECT ValueType" >>
             /\ table = before
       /\ ( last.fault = "exec" /\ Len(last.statements) = 2 )
          => /\ last.err = ( IF last.statements[2] = "INSERT"
                             THEN ErrInsertFailed(last.name)
                             ELSE ErrUpdateFailed(last.name) )
             /\ table = before
       /\ ( last.fault = "exec" /\ Len(last.statements) # 2 )
          => /\ last.err = ErrDifferentType(last.name)
             /\ table = before

\* the lookup of a Set failed on a name without an entry, in a store that
\* holds an entry of the other name
C31_Witness ==
    /\ last.op = "Set"
    /\ last.fault = "query"
    /\ last.err = ErrBackend
    /\ SelectRows(table, last.name) = {}
    /\ table # {}

\* C32: Set, ForceSet and Delete on a name, successful or not, leave the rows
\* of every other name as they were.
C32_LocalToKey ==
    last.op \in {"Set", "ForceSet", "Delete"}
    => \A m \in Names \ {last.name} : SelectRows(table, m) = SelectRows(before, m)

\* ForceSet changed the entry of one name while the other name holds a
\* different value
C32_Witness ==
    /\ last.op = "ForceSet"
    /\ last.err = NoErr
    /\ SelectRows(table, last.name) # SelectRows(before, last.name)
    /\ SelectRows(before, last.name) # {}
    /\ \E r \in table : r.Name # last.name /\ r.Value # BlobString(last.value)


\* C33: Exists, Get and MustGet leave the table as it was, whether they
\* succeed, fail with ErrNoEntry, ErrFailedToParse or the unrecognizable-type
\* error, or panic; the same read made again right after gives the same
\* result, error and panic.
C33_ReadsPure ==
    last.op \in {"Exists", "Get", "MustGet"}
    => /\ table = before
       /\ last.fault = "none"
          => LET get == InstanceGet(table, last.name, "none")
                 exists == InstanceExists(table, last.name, "none")
             IN  /\ last.op = "Get" => last.res = get.res /\ last.err = get.err
                 /\ last.op = "MustGet" => last.res = get.res /\ last.panic = get.err
                 /\ last.op = "Exists"
                    => last.res = BoolV(exists.res) /\ last.panic = exists.panic

\* MustGet panicked with ErrFailedToParse and the row it read is still there
C33_Witness ==
    /\ last.op = "MustGet"
    /\ last.fault = "none"
    /\ last.panic = ErrFailedToParse
    /\ SelectRows(table, last.name) # {}
    /\ table = before


\* C34: a Set or ForceSet that found no entry for the name inserts: when the
\* name still has no entry the INSERT succeeds and the entry holds the
\* caller's value and type; when another caller has inserted in between, the
\* INSERT fails with the insert-failure error and the table, with the row of
\* the first inserter, is left as it was.
C34_InsertRace ==
    LET call == last.done
    IN  ( /\ call.pc = "done"
          /\ call.op \in {"Set", "ForceSet"}
          /\ call.next = "insert" )
        => /\ call.seen = {}
           /\ IF SelectRows(before, call.name) = {}
              THEN /\ last.err = NoErr
                   /\ table = before
                        \cup { Row(call.name, BlobString(call.value), call.valueType) }
              ELSE /\ last.err = ErrInsertFailed(call.name)
                   /\ table = before

\* the INSERT of the second caller failed and the entry holds the value and
\* the type of the first, both different from the second caller's
C34_Witness ==
    /\ last.done.pc = "done"
    /\ last.done.next = "insert"
    /\ last.err = ErrInsertFailed(last.done.name)
    /\ \E r \in SelectRows(table, last.done.name) :
           /\ r.ValueType # last.done.valueType
           /\ r.Value # BlobString(last.done.value)

\* C35: when Set or ForceSet returns no error, right after its INSERT or
\* UPDATE the name has an entry that holds the value of the call, whatever
\* the other callers did between its lookup and its write.
C35_SuccessMeansWritten ==
    LET call == last.done
    IN  ( /\ call.pc = "done"
          /\ call.op \in {"Set", "ForceSet"}
          /\ last.err = NoErr )
        => \E r \in SelectRows(table, call.name) : r.Value = BlobString(call.value)

\* C36: with callers that use Set and Delete only, every row holds a value of
\* the type its ValueType names: a Set that wrote left the entry with the
\* type of its value, and every stored text parses under its tag.
C36_StrictKeepsTypes ==
    LET call == last.done
    IN  /\ ( /\ call.pc = "done"
             /\ call.op = "Set"
             /\ call.next \in {"insert", "update"}
             /\ last.err = NoErr )
           => \A r \in SelectRows(table, call.name) : r.ValueType = call.valueType
        /\ \A r \in table :
               \E value \in ConcValues :
                   /\ r.Value = BlobString(value)
                   /\ r.ValueType = toValueType(value).valueType

====
